---- MODULE Spec2Model ----
(***************************************************************************)
(* Layered configuration loading (src/src/config.rs): the Configuration    *)
(* trait's merge operations on the TestConfig implementor, the decoder     *)
(* adapters, and the errors they return.                                   *)
(***************************************************************************)
EXTENDS Integers, Sequences, FiniteSets, TLC

(* ---------------------------------------------------------------------- *)
(* Option<T>: None is the empty tuple, Some(v) the one-element tuple.      *)
(* ---------------------------------------------------------------------- *)
None == <<>>

Some(v) == <<v>>

\* Or with the arguments the wrong way round.
OrOther(a, b) == IF b # None THEN b ELSE a

\* Option::or (self.take().or(other)): the receiver when it is Some.
Or(a, b) == IF a # None THEN a ELSE b

(* ---------------------------------------------------------------------- *)
(* TestConfig and its fragments                                            *)
(* ---------------------------------------------------------------------- *)
Fields == {"my_bool", "my_string"}

BoolValues == {TRUE, FALSE}

StringValues == {"Hello World!", "Hi World!"}

OptBool == {None} \cup {Some(b) : b \in BoolValues}

OptString == {None} \cup {Some(s) : s \in StringValues}

TestConfig == [my_bool : OptBool, my_string : OptString, _loaded : BOOLEAN]

\* A fragment is a TestConfig fresh from the decoder or the caller: the
\* skipped _loaded field is false.
Fragments == {c \in TestConfig : c._loaded = FALSE}

\* TestConfig::new: every assignable field None, not loaded.
new == [my_bool |-> None, my_string |-> None, _loaded |-> FALSE]

\* impl Default for TestConfig: Default::default() of an Option is None.
default == [my_bool |-> None, my_string |-> None, _loaded |-> FALSE]

\* TestConfig::set_loaded
set_loaded(c) == [c EXCEPT !._loaded = TRUE]

\* TestConfig::is_loaded
is_loaded(c) == c._loaded

\* config assigning other's field whenever other has one.
config_other_wins(c, other) ==
    set_loaded([c EXCEPT !.my_bool = Or(other.my_bool, c.my_bool),
                         !.my_string = Or(other.my_string, c.my_string)])

\* config taking my_string from other without looking at the receiver.
config_string_replaced(c, other) ==
    set_loaded([c EXCEPT !.my_bool = Or(c.my_bool, other.my_bool),
                         !.my_string = other.my_string])

\* config calling set_loaded only when a field changed.
config_loaded_if_changed(c, other) ==
    LET m == [c EXCEPT !.my_bool = Or(c.my_bool, other.my_bool),
                       !.my_string = Or(c.my_string, other.my_string)]
    IN  IF m = c THEN c ELSE set_loaded(m)

\* config without the call of set_loaded.
config_never_loads(c, other) ==
    [c EXCEPT !.my_bool = Or(c.my_bool, other.my_bool),
              !.my_string = Or(c.my_string, other.my_string)]

\* TestConfig::config: per field self.take().or(other), then set_loaded().
config(c, other) ==
    set_loaded([c EXCEPT !.my_bool = Or(c.my_bool, other.my_bool),
                         !.my_string = Or(c.my_string, other.my_string)])

\* optional_config calling set_loaded whether or not there is an other.
optional_config_always_loads(c, optional_other) ==
    IF optional_other # None THEN config(c, optional_other[1]) ELSE set_loaded(c)

\* Configuration::optional_config
optional_config(c, optional_other) ==
    IF optional_other # None THEN config(c, optional_other[1]) ELSE c

\* ensure_loaded with the test inverted.
ensure_loaded_inverted(c) == IF is_loaded(c) THEN default ELSE c

\* Configuration::ensure_loaded
ensure_loaded(c) == IF ~is_loaded(c) THEN default ELSE c

(* ---------------------------------------------------------------------- *)
(* Config texts and the decoder adapters                                   *)
(* A text is a sequence of "key: value" lines; a value is a scalar token   *)
(* as it is spelled in the text.                                           *)
(* ---------------------------------------------------------------------- *)
Formats == {"yaml", "json", "toml"}

Line(k, v) == [key |-> k, val |-> v]

BoolTokens == {"true", "false"}

StringTokens == {"\"Hello World!\"", "\"Hi World!\""}

ScalarTokens == BoolTokens \cup StringTokens

\* The bool a token spells.
ParseBool(tok) == tok = "true"

\* The string a quoted token spells: the token without its quotes.
Unquote(tok) == IF tok = "\"Hello World!\"" THEN "Hello World!" ELSE "Hi World!"

test_string_1 == <<Line("my_bool", "true")>>

test_string_2 == <<Line("my_string", "\"Hello World!\"")>>

test_string_3 == <<Line("my_bool", "false")>>

test_string_4 == <<Line("my_bool", "false"), Line("my_string", "\"Hi World!\"")>>

\* Only a key TestConfig does not have: decodes to a fragment with no field.
text_unknown_key == <<Line("my_other", "true")>>

\* A valid field followed by a value of the wrong type.
text_wrong_type == <<Line("my_string", "\"Hi World!\""), Line("my_bool", "\"Hi World!\"")>>

\* A value that is no scalar of the format at all.
text_malformed == <<Line("my_bool", "[")>>

\* The same key twice.
text_duplicate == <<Line("my_bool", "true"), Line("my_bool", "false")>>

Texts ==
    {test_string_1, test_string_2, test_string_3, test_string_4,
     text_unknown_key, text_wrong_type, text_malformed, text_duplicate}

DecodeOk(frag) == [ok |-> TRUE, value |-> frag, error |-> "none"]

DecodeErr(e) == [ok |-> FALSE, value |-> new, error |-> e]

\* The derived Deserialize of TestConfig driven over the lines left to read:
\* unknown keys are ignored, _loaded is skipped, a repeated key, a value of
\* the wrong type or a malformed value fails the whole decode.
RECURSIVE DeserializeLines(_, _)
DeserializeLines(lines, acc) ==
    IF lines = <<>> THEN DecodeOk(acc)
    ELSE LET l == Head(lines) IN
         IF l.val \notin ScalarTokens THEN DecodeErr("syntax")
         ELSE IF l.key = "my_bool" THEN
              IF acc.my_bool # None THEN DecodeErr("duplicate field")
              ELSE IF l.val \notin BoolTokens THEN DecodeErr("invalid type")
              ELSE DeserializeLines(Tail(lines),
                                    [acc EXCEPT !.my_bool = Some(ParseBool(l.val))])
         ELSE IF l.key = "my_string" THEN
              IF acc.my_string # None THEN DecodeErr("duplicate field")
              ELSE IF l.val \notin StringTokens THEN DecodeErr("invalid type")
              ELSE DeserializeLines(Tail(lines),
                                    [acc EXCEPT !.my_string = Some(Unquote(l.val))])
         ELSE DeserializeLines(Tail(lines), acc)

\* Self::deserialize(D::from(config_string)): an empty document is a value
\* only for TOML (the empty table).
Deserialize(fmt, text) ==
    IF text = <<>> /\ fmt # "toml" THEN DecodeErr("eof")
    ELSE DeserializeLines(text, new)

(* ---------------------------------------------------------------------- *)
(* The filesystem the file loaders query: one path per case.               *)
(* ---------------------------------------------------------------------- *)
File(e, o, f, t) == [exists |-> e, openable |-> o, faulty |-> f, content |-> t]

Paths ==
    {"absent.conf", "first.conf", "full.conf", "unknown.conf",
     "broken.conf", "locked.conf", "faulty.conf"}

\* Path::exists, File::open and the reads of the BufReader, per path:
\* locked.conf exists but cannot be opened, faulty.conf opens but its reads
\* fail with an I/O error.
FileAt(path) ==
    CASE path = "first.conf"   -> File(TRUE, TRUE, FALSE, test_string_1)
      [] path = "full.conf"    -> File(TRUE, TRUE, FALSE, test_string_4)
      [] path = "unknown.conf" -> File(TRUE, TRUE, FALSE, text_unknown_key)
      [] path = "broken.conf"  -> File(TRUE, TRUE, FALSE, text_wrong_type)
      [] path = "locked.conf"  -> File(TRUE, FALSE, FALSE, <<>>)
      [] path = "faulty.conf"  -> File(TRUE, TRUE, TRUE, test_string_4)
      [] OTHER                 -> File(FALSE, FALSE, FALSE, <<>>)

\* The prefixes of a text: what read_to_string may have appended to the
\* buffer when it stops with an error.
Prefixes(text) == {SubSeq(text, 1, k) : k \in 0..Len(text)}

\* The reader adapters decoding only the first line of the file.
DeserializeReaderFirstLine(fmt, file) ==
    IF file.faulty
    THEN {DecodeErr("io")}
    ELSE {Deserialize(fmt, SubSeq(file.content, 1, 1))}

\* Self::deserialize(D::from(file_reader)), every outcome it can have.
\* YamlFormat and JsonFormat hand the reader to the decoder, which reports
\* a failed read as its own error; TomlFormat reads the file into a string
\* first and discards the result of read_to_string.
DeserializeReader(fmt, file) ==
    IF fmt = "toml"
    THEN IF file.faulty
         THEN {Deserialize(fmt, t) : t \in Prefixes(file.content)}
         ELSE {Deserialize(fmt, file.content)}
    ELSE IF file.faulty
         THEN {DecodeErr("io")}
         ELSE {Deserialize(fmt, file.content)}

(* ---------------------------------------------------------------------- *)
(* Errors                                                                  *)
(* ---------------------------------------------------------------------- *)
Error(k, p, s, src) == [kind |-> k, path |-> p, string |-> s, source |-> src]

NoError == Error("none", None, None, "none")

FindConfigFile(path) == Error("FindConfigFile", Some(path), None, "none")

\* optional_path: None
FindOptionalConfigFile == Error("FindOptionalConfigFile", None, None, "none")

ReadConfigFile(path) == Error("ReadConfigFile", Some(path), None, "io::Error")

ParseConfigFile(path, src) == Error("ParseConfigFile", Some(path), None, src)

ParseConfigString(text, src) == Error("ParseConfigString", None, Some(text), src)

\* The map_err closure of string and filepath: prints the decoder's error
\* and boxes the literal "Hello" in its place.
MapErr(serde_error) == "Hello"

(* ---------------------------------------------------------------------- *)
(* The loaders, as functions from the receiver to the call's outcomes:     *)
(* the receiver afterwards, the error (NoError on Ok) and the fragment     *)
(* that was merged, if one was.                                            *)
(* ---------------------------------------------------------------------- *)
Outcome(c, e, m) == [cfg |-> c, err |-> e, merged |-> m, open |-> 0]

\* The tail marking the value loaded before the decode result is looked at.
MergeDecodedMarksFirst(c, d, err) ==
    IF ~d.ok THEN Outcome(set_loaded(c), err, None)
    ELSE Outcome(set_loaded(config(c, d.value)), NoError, Some(d.value))

\* The tail returning early when the decoded fragment has no field.
MergeDecodedSkipsEmpty(c, d, err) ==
    IF ~d.ok THEN Outcome(c, err, None)
    ELSE IF d.value = new THEN Outcome(c, NoError, None)
    ELSE Outcome(set_loaded(config(c, d.value)), NoError, Some(d.value))

\* The tail of string and filepath once other_config is decoded.
MergeDecoded(c, d, err) ==
    IF ~d.ok THEN Outcome(c, err, None)
    ELSE Outcome(set_loaded(config(c, d.value)), NoError, Some(d.value))

\* Configuration::string
string(c, fmt, config_string) ==
    LET d == Deserialize(fmt, config_string)
    IN  MergeDecoded(c, d, ParseConfigString(config_string, MapErr(d.error)))

\* filepath marking the value loaded when the file is absent.
filepath_absent_loads(c, fmt, config_filepath) ==
    LET file == FileAt(config_filepath) IN
    IF ~file.exists THEN {Outcome(set_loaded(c), NoError, None)}
    ELSE IF ~file.openable THEN {Outcome(c, ReadConfigFile(config_filepath), None)}
    ELSE {MergeDecoded(c, d, ParseConfigFile(config_filepath, MapErr(d.error))) :
             d \in DeserializeReader(fmt, file)}

\* filepath skipping a file it cannot open as it skips an absent one.
filepath_open_unchecked(c, fmt, config_filepath) ==
    LET file == FileAt(config_filepath) IN
    IF ~file.exists \/ ~file.openable THEN {Outcome(c, NoError, None)}
    ELSE {MergeDecoded(c, d, ParseConfigFile(config_filepath, MapErr(d.error))) :
             d \in DeserializeReader(fmt, file)}

\* The TOML adapter keeping its reader alive for the rest of the program.
ReadersDroppedTomlLeaks(fmt) ==
    IF fmt = "toml" THEN 0 ELSE 1

\* The readers dropped, and so the handles closed, before filepath returns.
\* The File is owned by the BufReader, which D::from takes by value:
\* TomlFormat::from drops it when it returns; YamlFormat and JsonFormat move
\* it into the decoder, which Self::deserialize takes by value and drops on
\* success and on error alike.
ReadersDropped(fmt) ==
    CASE fmt = "toml" -> 1
      [] OTHER -> 1

\* The outcome r of a call in which File::open succeeded once.
AfterOpen(r, fmt) == [r EXCEPT !.open = 1 - ReadersDropped(fmt)]

\* The body of Configuration::filepath, given the file its own calls of
\* Path::exists and File::open find at config_filepath.
filepath_seeing(c, fmt, config_filepath, file) ==
    IF ~file.exists THEN {Outcome(c, NoError, None)}
    ELSE IF ~file.openable THEN {Outcome(c, ReadConfigFile(config_filepath), None)}
    ELSE {AfterOpen(MergeDecoded(c, d, ParseConfigFile(config_filepath, MapErr(d.error))),
                    fmt) :
             d \in DeserializeReader(fmt, file)}

\* Configuration::filepath
filepath(c, fmt, config_filepath) ==
    filepath_seeing(c, fmt, config_filepath, FileAt(config_filepath))

\* Configuration::optional_filepath
optional_filepath(c, fmt, optional_config_filepath) ==
    IF optional_config_filepath # None
    THEN filepath(c, fmt, optional_config_filepath[1])
    ELSE {Outcome(c, NoError, None)}

\* try_filepath without its own existence check.
try_filepath_unchecked(c, fmt, config_filepath) ==
    filepath(c, fmt, config_filepath)

\* A file another process has removed.
Removed == File(FALSE, FALSE, FALSE, <<>>)

\* Configuration::try_filepath. The path is looked at twice, by
\* try_filepath and then by filepath; the file system is shared with other
\* processes, so the second look finds the file of the first or finds it
\* removed in between.
try_filepath(c, fmt, config_filepath) ==
    IF ~FileAt(config_filepath).exists
    THEN {Outcome(c, FindConfigFile(config_filepath), None)}
    ELSE filepath(c, fmt, config_filepath)
         \cup filepath_seeing(c, fmt, config_filepath, Removed)

\* try_optional_filepath succeeding on None as optional_filepath does.
try_optional_filepath_none_ok(c, fmt, optional_config_filepath) ==
    IF optional_config_filepath # None
    THEN try_filepath(c, fmt, optional_config_filepath[1])
    ELSE {Outcome(c, NoError, None)}

\* Configuration::try_optional_filepath
try_optional_filepath(c, fmt, optional_config_filepath) ==
    IF optional_config_filepath # None
    THEN try_filepath(c, fmt, optional_config_filepath[1])
    ELSE {Outcome(c, FindOptionalConfigFile, None)}

(* ---------------------------------------------------------------------- *)
(* Path validity (src/src/path.rs). A path is absolute or relative and has *)
(* a sequence of components; relative paths are looked up from the current *)
(* directory, which is the root of the disk.                               *)
(* ---------------------------------------------------------------------- *)
Names == {"a", "b"}

\* The most components a path or the disk's tree has.
MaxDepth == 2

CompSeqs == UNION {[1..n -> Names] : n \in 0..MaxDepth}

PathOf(abs, comps) == [absolute |-> abs, comps |-> comps]

PathValues == {PathOf(abs, comps) : abs \in BOOLEAN, comps \in CompSeqs}

OptPathValues == {None} \cup {Some(p) : p \in PathValues}

\* Path::parent: the path without its last component; None for the root and
\* for the empty path. The parent of a one-component relative path is the
\* empty path.
parent(p) ==
    IF p.comps = <<>> THEN None
    ELSE Some(PathOf(p.absolute, SubSeq(p.comps, 1, Len(p.comps) - 1)))

\* What the permission queries can report of an entry.
Modes == {{"r", "w"}, {"r", "x"}, {}}

\* A disk: mounted or not; when mounted its root exists and below it the
\* entries along one spine, each directory holding at most one entry;
\* modes[i + 1] is the mode of the entry at depth i.
Disks ==
    UNION {{[mounted |-> mt, spine |-> sp, modes |-> md] :
               md \in [1..(Len(sp) + 1) -> Modes], mt \in {TRUE}} : sp \in CompSeqs}
    \cup {[mounted |-> FALSE, spine |-> <<>>, modes |-> <<{}>>]}

IsPrefix(s, t) == Len(s) <= Len(t) /\ SubSeq(t, 1, Len(s)) = s

\* The absolute location a path names: relative paths start at the current
\* directory, the root.
Resolve(p) == p.comps

\* The entry at a location is on the disk.
OnDisk(d, loc) == d.mounted /\ IsPrefix(loc, d.spine)

\* The empty path names nothing: every query of it fails.
IsEmptyPath(p) == ~p.absolute /\ p.comps = <<>>

\* ValidPath::exists for P: AsRef<Path> (Path::exists)
exists(d, p) == ~IsEmptyPath(p) /\ OnDisk(d, Resolve(p))

\* permissions::is_readable / is_writable / is_executable, unwrap_or(false)
Permits(d, p, perm) == exists(d, p) /\ perm \in d.modes[Len(Resolve(p)) + 1]

\* ValidPath::is_readable
is_readable(d, p) == Permits(d, p, "r")

\* ValidPath::is_writable
is_writable(d, p) == Permits(d, p, "w")

\* ValidPath::is_executable
is_executable(d, p) == Permits(d, p, "x")

\* largest_valid_subset stepping to the parent once, without a loop.
largest_valid_subset_one_step(d, p) ==
    IF exists(d, p) THEN Some(p) ELSE parent(p)

\* ValidPath::largest_valid_subset: walk up the parents until one exists.
RECURSIVE largest_valid_subset(_, _)
largest_valid_subset(d, p) ==
    IF exists(d, p) THEN Some(p)
    ELSE IF parent(p) = None THEN None
    ELSE largest_valid_subset(d, parent(p)[1])

\* ValidPath::is_creatable
is_creatable(d, p) ==
    LET s == largest_valid_subset(d, p)
    IN  IF s # None THEN is_writable(d, s[1]) ELSE FALSE

\* impl ValidPath for Option<P>
opt_exists(d, o) == IF o # None THEN exists(d, o[1]) ELSE FALSE

opt_is_readable(d, o) == IF o # None THEN is_readable(d, o[1]) ELSE FALSE

opt_is_writable(d, o) == IF o # None THEN is_writable(d, o[1]) ELSE FALSE

opt_is_creatable(d, o) == IF o # None THEN is_creatable(d, o[1]) ELSE FALSE

\* Option's is_executable answering from the readable bit.
opt_is_executable_as_readable(d, o) == IF o # None THEN is_readable(d, o[1]) ELSE FALSE

opt_is_executable(d, o) == IF o # None THEN is_executable(d, o[1]) ELSE FALSE

opt_largest_valid_subset(d, o) ==
    IF o # None THEN largest_valid_subset(d, o[1]) ELSE None

(* ---------------------------------------------------------------------- *)
(* ValidPaths (src/src/path.rs): the queries on an iterator of paths and   *)
(* on an iterator of optional paths. An iterator is the sequence of items  *)
(* it yields and the number of them it has yielded so far.                 *)
(* ---------------------------------------------------------------------- *)
\* The most items an iterator yields.
MaxItems == 2

\* The two impls of ValidPaths: Q = P and Q = Option<P>.
Kinds == {"paths", "options"}

\* The paths the iterators yield.
ItemPaths == {p \in PathValues : Len(p.comps) <= 1}

Items(kind) ==
    IF kind = "paths" THEN ItemPaths
    ELSE {None} \cup {Some(p) : p \in ItemPaths}

\* The predicates the first_*_path and all_*_paths methods pass on.
TraitPredicates == {"exists", "is_readable", "is_writable", "is_executable", "is_creatable"}

\* The fn(&Q) -> bool a caller passes to first_valid_path and
\* all_valid_paths: a predicate of the trait, or one of its own such as
\* |p| !p.exists().
Predicates == TraitPredicates \cup {"is_missing"}

\* f(item), for the Q of the impl.
Holds(kind, f, d, item) ==
    IF kind = "paths"
    THEN CASE f = "exists"        -> exists(d, item)
           [] f = "is_readable"   -> is_readable(d, item)
           [] f = "is_writable"   -> is_writable(d, item)
           [] f = "is_executable" -> is_executable(d, item)
           [] f = "is_creatable"  -> is_creatable(d, item)
           [] f = "is_missing"    -> ~exists(d, item)
    ELSE CASE f = "exists"        -> opt_exists(d, item)
           [] f = "is_readable"   -> opt_is_readable(d, item)
           [] f = "is_writable"   -> opt_is_writable(d, item)
           [] f = "is_executable" -> opt_is_executable(d, item)
           [] f = "is_creatable"  -> opt_is_creatable(d, item)
           [] f = "is_missing"    -> ~opt_exists(d, item)

Iterator(kind, items, pos, from) ==
    [kind |-> kind, items |-> items, pos |-> pos, from |-> from]

NoIterator == Iterator("paths", <<>>, 0, 0)

Iterators ==
    UNION {{Iterator(kind, items, 0, 0) : items \in [1..n -> Items(kind)]} :
              kind \in Kinds, n \in 0..MaxItems}

\* What a query returns and how many items the iterator has then yielded.
Yield(result, pos) == [result |-> result, pos |-> pos]

\* The positions, among the items not yet yielded, whose item f accepts.
Accepted(it, f, d) ==
    {j \in (it.pos + 1)..Len(it.items) : Holds(it.kind, f, d, it.items[j])}

Min(S) == CHOOSE j \in S : \A k \in S : j <= k

\* Iterator::find on &mut I, found being the positions of the items its
\* predicate accepts: next() is called until an item satisfies the
\* predicate; that item and all before it are consumed, and when there is
\* none every item is.
find(it, found) ==
    IF found = {} THEN Yield(None, Len(it.items))
    ELSE Yield(Some(it.items[Min(found)]), Min(found))

\* Option::flatten
flatten(o) == IF o = None THEN None ELSE o[1]

\* first_valid_path searching a copy of the iterator.
first_valid_path_peeking(it, f, d) ==
    LET r == find(it, Accepted(it, f, d)) IN
    IF it.kind = "paths" THEN Yield(r.result, it.pos)
    ELSE Yield(flatten(r.result), it.pos)

\* ValidPaths::first_valid_path: self.find(|p| f(p)) for Q = P, and
\* self.find(|p| f(p)).flatten() for Q = Option<P>.
first_valid_path(it, f, d) ==
    LET r == find(it, Accepted(it, f, d)) IN
    IF it.kind = "paths" THEN r
    ELSE Yield(flatten(r.result), r.pos)

\* One next() on the sequence all_valid_paths returns. For Q = P it is
\* self.filter(f), whose next() is find. For Q = Option<P> it is
\* self.filter(f).flat_map(identity): an accepted None yields no path and
\* the next accepted item is taken.
all_valid_paths_next(it, f, d) ==
    LET r == find(it, {j \in Accepted(it, f, d) : it.items[j] # None}) IN
    IF it.kind = "paths" THEN find(it, Accepted(it, f, d))
    ELSE Yield(flatten(r.result), r.pos)

\* The predicate each first_*_path method passes to first_valid_path.
FirstMethods ==
    [first_existing_path   |-> "exists",
     first_readable_path   |-> "is_readable",
     first_writable_path   |-> "is_writable",
     first_executable_path |-> "is_executable",
     first_creatable_path  |-> "is_creatable"]

\* The predicate each all_*_paths method passes to all_valid_paths.
AllMethods ==
    [all_existing_paths   |-> "exists",
     all_readable_paths   |-> "is_readable",
     all_writable_paths   |-> "is_writable",
     all_executable_paths |-> "is_executable",
     all_creatable_paths  |-> "is_creatable"]

(* ---------------------------------------------------------------------- *)
(* State: one owned configuration value and the calls made on it.          *)
(*   cfg       the TestConfig value                                        *)
(*   hist      the fragments merged into it since new(), in call order     *)
(*   modified  some merge call since new() changed a field                 *)
(*   last      the latest call: its name, its argument (wrapped in a       *)
(*             tuple, empty when there is none or it was None), the error  *)
(*             it returned and whether it changed a field                  *)
(*   open_files  the configuration files opened and not yet closed         *)
(* and the path queries:                                                   *)
(*   disk      the filesystem the path predicates query                    *)
(*   ask       the latest query: the impl (for a path, an Option, or an    *)
(*             iterator of either), the method and the receiver (for an    *)
(*             iterator, the predicate)                                    *)
(*   answer    what it returned                                            *)
(*   iter      the iterator the queries of ValidPaths are made on: its     *)
(*             items, how many it has yielded, and how many it had         *)
(*             yielded before the latest query                             *)
(* ---------------------------------------------------------------------- *)
VARIABLES cfg, hist, modified, last, open_files, disk, ask, answer, iter

vars == <<cfg, hist, modified, last, open_files, disk, ask, answer, iter>>

configVars == <<cfg, hist, modified, last, open_files>>

pathVars == <<disk, ask, answer, iter>>

\* The longest call history kept.
MaxMerges == 2

OptPaths == {None} \cup {Some(p) : p \in Paths}

OptFragments == {None} \cup {Some(f) : f \in Fragments}

FieldsOf(c) == [f \in Fields |-> c[f]]

Call(op, arg, err, changed) == [op |-> op, arg |-> arg, err |-> err, changed |-> changed]

Asked(impl, method, arg) == [impl |-> impl, method |-> method, arg |-> arg]

NotAsked == Asked("none", "none", None)

\* todo!() in TestConfig::env: the call panics instead of returning.
Panic == Error("panic", None, None, "not yet implemented")

\* No call has panicked.
Running == last.err.kind # "panic"

InitConfig ==
    /\ cfg = new
    /\ hist = <<>>
    /\ modified = FALSE
    /\ last = Call("new", <<>>, NoError, FALSE)
    /\ open_files = 0

InitQuery ==
    /\ ask = NotAsked
    /\ answer = FALSE

InitNoIterator ==
    /\ iter = NoIterator

Init ==
    /\ InitConfig
    /\ InitQuery
    /\ InitNoIterator
    /\ disk = [mounted |-> TRUE, spine |-> <<>>, modes |-> <<{"r", "w"}>>]

\* A merge call returned with outcome r.
Return(op, arg, r) ==
    /\ Running
    /\ UNCHANGED pathVars
    /\ cfg' = r.cfg
    /\ hist' = IF r.merged # None THEN Append(hist, r.merged[1]) ELSE hist
    /\ Len(hist') <= MaxMerges
    /\ modified' = (modified \/ FieldsOf(r.cfg) # FieldsOf(cfg))
    /\ last' = Call(op, arg, r.err, FieldsOf(r.cfg) # FieldsOf(cfg))
    /\ open_files' = open_files + r.open

DoNew ==
    /\ Running
    /\ UNCHANGED pathVars
    /\ cfg' = new
    /\ hist' = <<>>
    /\ modified' = FALSE
    /\ last' = Call("new", <<>>, NoError, FALSE)
    /\ UNCHANGED open_files

DoConfig ==
    \E other \in Fragments :
        Return("config", <<other>>, Outcome(config(cfg, other), NoError, Some(other)))

DoOptionalConfig ==
    \E optional_other \in OptFragments :
        Return("optional_config", optional_other,
               Outcome(optional_config(cfg, optional_other), NoError, optional_other))

DoString ==
    \E fmt \in Formats, config_string \in Texts :
        Return("string", <<config_string>>, string(cfg, fmt, config_string))

DoFilepath ==
    \E fmt \in Formats, path \in Paths :
        \E r \in filepath(cfg, fmt, path) : Return("filepath", <<path>>, r)

DoOptionalFilepath ==
    \E fmt \in Formats, optional_path \in OptPaths :
        \E r \in optional_filepath(cfg, fmt, optional_path) :
            Return("optional_filepath", optional_path, r)

DoTryFilepath ==
    \E fmt \in Formats, path \in Paths :
        \E r \in try_filepath(cfg, fmt, path) : Return("try_filepath", <<path>>, r)

DoTryOptionalFilepath ==
    \E fmt \in Formats, optional_path \in OptPaths :
        \E r \in try_optional_filepath(cfg, fmt, optional_path) :
            Return("try_optional_filepath", optional_path, r)

DoEnsureLoaded ==
    /\ Running
    /\ cfg' = ensure_loaded(cfg)
    /\ last' = Call("ensure_loaded", <<>>, NoError, FieldsOf(cfg') # FieldsOf(cfg))
    /\ UNCHANGED <<hist, modified, open_files>>
    /\ UNCHANGED pathVars

\* TestConfig::env
DoEnv ==
    /\ Running
    /\ last' = Call("env", <<>>, Panic, FALSE)
    /\ UNCHANGED <<cfg, hist, modified, open_files>>
    /\ UNCHANGED pathVars

\* set_loaded called by the owner of the value.
DoSetLoaded ==
    /\ Running
    /\ cfg' = set_loaded(cfg)
    /\ last' = Call("set_loaded", <<>>, NoError, FALSE)
    /\ UNCHANGED <<hist, modified, open_files>>
    /\ UNCHANGED pathVars

Next ==
    \/ DoNew
    \/ DoConfig
    \/ DoOptionalConfig
    \/ DoString
    \/ DoFilepath
    \/ DoOptionalFilepath
    \/ DoTryFilepath
    \/ DoTryOptionalFilepath
    \/ DoEnsureLoaded
    \/ DoEnv

\* The merge calls on one value.
Spec == Init /\ [][Next]_vars

NextPrimitive ==
    \/ Next
    \/ DoSetLoaded

\* The merge calls and the primitive set_loaded on one value.
SpecPrimitive == Init /\ [][NextPrimitive]_vars

(* ---------------------------------------------------------------------- *)
(* One query of a path predicate on some disk.                             *)
(* ---------------------------------------------------------------------- *)
InitPath ==
    /\ InitConfig
    /\ InitQuery
    /\ InitNoIterator
    /\ disk \in Disks

Query(impl, method, arg, result) ==
    /\ ask = NotAsked
    /\ ask' = Asked(impl, method, arg)
    /\ answer' = result
    /\ UNCHANGED <<disk, iter>>
    /\ UNCHANGED configVars

DoExists ==
    \E p \in PathValues : Query("path", "exists", Some(p), exists(disk, p))

DoIsReadable ==
    \E p \in PathValues : Query("path", "is_readable", Some(p), is_readable(disk, p))

DoIsWritable ==
    \E p \in PathValues : Query("path", "is_writable", Some(p), is_writable(disk, p))

DoIsExecutable ==
    \E p \in PathValues : Query("path", "is_executable", Some(p), is_executable(disk, p))

DoIsCreatable ==
    \E p \in PathValues : Query("path", "is_creatable", Some(p), is_creatable(disk, p))

DoLargestValidSubset ==
    \E p \in PathValues :
        Query("path", "largest_valid_subset", Some(p), largest_valid_subset(disk, p))

DoOptExists ==
    \E o \in OptPathValues : Query("option", "exists", o, opt_exists(disk, o))

DoOptIsReadable ==
    \E o \in OptPathValues : Query("option", "is_readable", o, opt_is_readable(disk, o))

DoOptIsWritable ==
    \E o \in OptPathValues : Query("option", "is_writable", o, opt_is_writable(disk, o))

DoOptIsExecutable ==
    \E o \in OptPathValues :
        Query("option", "is_executable", o, opt_is_executable(disk, o))

DoOptIsCreatable ==
    \E o \in OptPathValues : Query("option", "is_creatable", o, opt_is_creatable(disk, o))

DoOptLargestValidSubset ==
    \E o \in OptPathValues :
        Query("option", "largest_valid_subset", o, opt_largest_valid_subset(disk, o))

NextPath ==
    \/ DoExists
    \/ DoIsReadable
    \/ DoIsWritable
    \/ DoIsExecutable
    \/ DoIsCreatable
    \/ DoLargestValidSubset
    \/ DoOptExists
    \/ DoOptIsReadable
    \/ DoOptIsWritable
    \/ DoOptIsExecutable
    \/ DoOptIsCreatable
    \/ DoOptLargestValidSubset

SpecPath == InitPath /\ [][NextPath]_vars

(* ---------------------------------------------------------------------- *)
(* Queries, one after another, on one iterator of paths or of optional     *)
(* paths.                                                                  *)
(* ---------------------------------------------------------------------- *)
\* The disks the iterators' items are looked up on: a writable root with
\* the directory a that can be read and searched only, and a root without
\* any permission.
IterDisks ==
    {[mounted |-> TRUE, spine |-> <<"a">>, modes |-> <<{"r", "w"}, {"r", "x"}>>],
     [mounted |-> TRUE, spine |-> <<>>, modes |-> <<{}>>]}

InitIter ==
    /\ InitConfig
    /\ InitQuery
    /\ disk \in IterDisks
    /\ iter \in Iterators

\* A query with predicate f returned r.
IterQuery(method, f, r) ==
    /\ ask' = Asked(iter.kind, method, Some(f))
    /\ answer' = r.result
    /\ iter' = [iter EXCEPT !.pos = r.pos, !.from = iter.pos]
    /\ UNCHANGED disk
    /\ UNCHANGED configVars

DoFirstValidPath ==
    \E f \in Predicates :
        IterQuery("first_valid_path", f, first_valid_path(iter, f, disk))

\* first_existing_path, first_readable_path, first_writable_path,
\* first_executable_path, first_creatable_path
DoFirstPath ==
    \E method \in DOMAIN FirstMethods :
        IterQuery(method, FirstMethods[method],
                  first_valid_path(iter, FirstMethods[method], disk))

\* A next() on the sequence all_valid_paths(f) returned.
DoAllValidPathsNext ==
    \E f \in Predicates :
        IterQuery("all_valid_paths", f, all_valid_paths_next(iter, f, disk))

\* A next() on the sequence all_existing_paths, all_readable_paths,
\* all_writable_paths, all_executable_paths or all_creatable_paths returned.
DoAllPathsNext ==
    \E method \in DOMAIN AllMethods :
        IterQuery(method, AllMethods[method],
                  all_valid_paths_next(iter, AllMethods[method], disk))

NextIter ==
    \/ DoFirstValidPath
    \/ DoFirstPath
    \/ DoAllValidPathsNext
    \/ DoAllPathsNext

SpecIter == InitIter /\ [][NextIter]_vars

TypeOK ==
    /\ cfg \in TestConfig
    /\ hist \in Seq(Fragments)
    /\ Len(hist) <= MaxMerges
    /\ modified \in BOOLEAN
    /\ open_files \in Nat

(* ---------------------------------------------------------------------- *)
(* Properties                                                              *)
(* ---------------------------------------------------------------------- *)
MergeOps ==
    {"config", "optional_config", "string", "filepath", "optional_filepath",
     "try_filepath", "try_optional_filepath"}

\* The first value a history of fragments gives a field, None if none does.
RECURSIVE FirstSet(_, _)
FirstSet(h, f) ==
    IF h = <<>> THEN None
    ELSE IF Head(h)[f] # None THEN Head(h)[f]
    ELSE FirstSet(Tail(h), f)

\* C1: first-write-wins. Across every merge call, whatever it returns, a
\* field that is set before the call has the same value after it.
C1_FirstWriteWins ==
    [][last'.op \in MergeOps =>
          \A f \in Fields : cfg[f] # None => cfg'[f] = cfg[f]]_vars

\* A merge brought a different value for my_bool than the one already set.
C1_Witness ==
    /\ last.op \in MergeOps
    /\ Len(hist) >= 2
    /\ hist[1].my_bool # None
    /\ hist[Len(hist)].my_bool # None
    /\ hist[Len(hist)].my_bool # hist[1].my_bool

\* C2: merge order is priority order. After merging F1..Fn since new(),
\* every field holds the value of the first fragment in call order that
\* sets it, and is unset only if no fragment sets it.
C2_MergeOrderIsPriority ==
    \A f \in Fields : cfg[f] = FirstSet(hist, f)

\* A (my_string = Hello, no my_bool) was merged before B (my_string = Hi,
\* my_bool set): my_string is A's and my_bool is B's.
C2_Witness ==
    /\ Len(hist) = 2
    /\ hist[1].my_string = Some("Hello World!")
    /\ hist[2].my_string = Some("Hi World!")
    /\ hist[1].my_bool = None
    /\ hist[2].my_bool # None
    /\ cfg.my_string = Some("Hello World!")
    /\ cfg.my_bool = hist[2].my_bool

\* C3: config(other) is a per-field left-biased choice: the receiver's
\* value if it was set, otherwise other's if that is set, otherwise unset.
C3_ConfigLeftBiased ==
    [][last'.op = "config" =>
          \A f \in Fields :
              cfg'[f] = IF cfg[f] # None THEN cfg[f]
                        ELSE IF last'.arg[1][f] # None THEN last'.arg[1][f]
                        ELSE None]_vars

\* config adopted my_string from other, and kept the receiver's my_bool
\* against a different my_bool of other.
C3_Witness ==
    /\ last.op = "config"
    /\ last.changed
    /\ last.arg[1].my_string = cfg.my_string
    /\ last.arg[1].my_bool # None
    /\ cfg.my_bool # None
    /\ last.arg[1].my_bool # cfg.my_bool

\* C4: ensure_loaded gate. Called on a value that is not loaded it leaves
\* the type's default; called on a loaded value it changes nothing.
C4_EnsureLoadedGate ==
    [][last'.op = "ensure_loaded" =>
          IF ~cfg._loaded THEN cfg' = default ELSE cfg' = cfg]_vars

\* ensure_loaded ran on a loaded value that still has an unset field.
C4_Witness ==
    /\ last.op = "ensure_loaded"
    /\ cfg._loaded
    /\ cfg.my_string = None
    /\ cfg.my_bool # None

\* The text no format decodes.
Undecodable(text) == \A fmt \in Formats : ~Deserialize(fmt, text).ok

\* C5: decode failure leaves the state untouched. string on a text that
\* does not decode, and filepath on a readable file whose content does not
\* decode, return the parse error and leave every field and the loaded flag
\* as they were; so does every call that returns a parse error.
C5_DecodeFailureUntouched ==
    [][/\ (last'.op = "string" /\ Undecodable(last'.arg[1]))
             => (last'.err.kind = "ParseConfigString" /\ cfg' = cfg)
       /\ (/\ last'.op = "filepath"
           /\ FileAt(last'.arg[1]).openable
           /\ ~FileAt(last'.arg[1]).faulty
           /\ Undecodable(FileAt(last'.arg[1]).content))
             => (last'.err.kind = "ParseConfigFile" /\ cfg' = cfg)
       /\ (last'.err.kind \in {"ParseConfigString", "ParseConfigFile"})
             => cfg' = cfg]_vars

\* string failed on a text whose first line is a valid my_string, on a
\* value that is not loaded and has no my_string.
C5_Witness ==
    /\ last.op = "string"
    /\ last.arg[1] = text_wrong_type
    /\ last.err.kind = "ParseConfigString"
    /\ cfg.my_string = None
    /\ ~cfg._loaded

\* C6: silent skip. filepath on a path that does not exist returns Ok and
\* changes no field and not the loaded flag.
C6_SilentSkipOnAbsentFile ==
    [][(last'.op = "filepath" /\ ~FileAt(last'.arg[1]).exists) =>
          (last'.err = NoError /\ cfg' = cfg)]_vars

\* filepath returned from an absent path on a value that is not loaded.
C6_Witness ==
    /\ last.op = "filepath"
    /\ last.arg[1] = "absent.conf"
    /\ last.err = NoError
    /\ ~cfg._loaded

\* C7: hard fail. try_filepath on a path that does not exist returns
\* FindConfigFile with the path that was passed and changes nothing.
C7_HardFailOnAbsentFile ==
    [][(last'.op = "try_filepath" /\ ~FileAt(last'.arg[1]).exists) =>
          /\ last'.err.kind = "FindConfigFile"
          /\ last'.err.path = Some(last'.arg[1])
          /\ cfg' = cfg]_vars

\* try_filepath failed on the absent path.
C7_Witness ==
    /\ last.op = "try_filepath"
    /\ last.arg[1] = "absent.conf"
    /\ last.err.kind = "FindConfigFile"

\* C8: try_optional_filepath(None) fails with FindOptionalConfigFile and
\* changes nothing; try_optional_filepath(Some(p)) ends as try_filepath(p)
\* can end on the same receiver.
C8_TryOptionalAsymmetry ==
    [][last'.op = "try_optional_filepath" =>
          IF last'.arg = None
          THEN /\ last'.err.kind = "FindOptionalConfigFile"
               /\ last'.err.path = None
               /\ cfg' = cfg
          ELSE \E fmt \in Formats :
                   \E r \in try_filepath(cfg, fmt, last'.arg[1]) :
                       cfg' = r.cfg /\ last'.err = r.err]_vars

\* try_optional_filepath(None) returned on a value that is not loaded.
C8_Witness ==
    /\ last.op = "try_optional_filepath"
    /\ last.arg = None
    /\ last.err.kind = "FindOptionalConfigFile"
    /\ ~cfg._loaded

\* C9: after a string call that returned Ok, and after a filepath call
\* that returned Ok on an existing file, is_loaded() is true.
C9_LoadedAfterDecode ==
    /\ (last.op = "string" /\ last.err = NoError) => is_loaded(cfg)
    /\ (last.op = "filepath" /\ last.err = NoError /\ FileAt(last.arg[1]).exists)
          => is_loaded(cfg)

\* string decoded a text with no field of TestConfig: nothing changed and
\* no field is set.
C9_Witness ==
    /\ last.op = "string"
    /\ last.arg[1] = text_unknown_key
    /\ last.err = NoError
    /\ ~last.changed
    /\ FieldsOf(cfg) = FieldsOf(new)

\* C10 as stated: is_loaded() is true exactly when some earlier merge call
\* modified a field.
C10_LoadedIffModified == is_loaded(cfg) <=> modified

\* C10 amended: is_loaded() is true exactly when some earlier merge call
\* merged a fragment (config, or a string or file loader that decoded),
\* whether or not it changed a field; it is true whenever one changed a
\* field.
C10_LoadedIffMerged ==
    /\ is_loaded(cfg) <=> hist # <<>>
    /\ modified => is_loaded(cfg)

\* Fragments were merged and none of them changed a field.
C10_Witness ==
    /\ hist # <<>>
    /\ ~modified
    /\ is_loaded(cfg)

\* The decoder errors a text can fail with.
DecodeErrorsOf(text) ==
    {Deserialize(fmt, text).error : fmt \in Formats} \ {"none"}

\* The decoder errors reading a file can fail with.
ReaderErrorsOf(file) ==
    {d.error : d \in UNION {DeserializeReader(fmt, file) : fmt \in Formats}} \ {"none"}

\* C11: a parse error returned by string carries the text, one returned by
\* filepath carries the path, and the source of both is the decoder's own
\* error.
C11_ParseErrorCarriesCause ==
    /\ (last.op = "string" /\ last.err.kind = "ParseConfigString") =>
          /\ last.err.string = Some(last.arg[1])
          /\ last.err.source \in DecodeErrorsOf(last.arg[1])
    /\ (last.op = "filepath" /\ last.err.kind = "ParseConfigFile") =>
          /\ last.err.path = Some(last.arg[1])
          /\ last.err.source \in ReaderErrorsOf(FileAt(last.arg[1]))

\* C12: filepath on a path that exists but cannot be opened returns
\* ReadConfigFile with that path and the I/O cause, merges nothing and
\* changes neither a field nor the loaded flag.
C12_ReadErrorOnUnopenable ==
    [][(/\ last'.op = "filepath"
        /\ FileAt(last'.arg[1]).exists
        /\ ~FileAt(last'.arg[1]).openable) =>
          /\ last'.err.kind = "ReadConfigFile"
          /\ last'.err.path = Some(last'.arg[1])
          /\ last'.err.source = "io::Error"
          /\ hist' = hist
          /\ cfg' = cfg]_vars

\* filepath failed on the file that cannot be opened, on a value that is
\* not loaded.
C12_Witness ==
    /\ last.op = "filepath"
    /\ last.arg[1] = "locked.conf"
    /\ last.err.kind = "ReadConfigFile"
    /\ ~cfg._loaded

\* Every field the fragment sets has the value the receiver has.
Subsumed(frag, c) == \A f \in Fields : frag[f] # None => frag[f] = c[f]

\* C13: idempotence of redundant merge. For the value V and every fragment
\* F whose set fields equal V's, V.config(F) has V's fields and is loaded,
\* and config(F) once more changes nothing.
C13_RedundantMergeIdempotent ==
    \A F \in Fragments :
        Subsumed(F, cfg) =>
            /\ FieldsOf(config(cfg, F)) = FieldsOf(cfg)
            /\ is_loaded(config(cfg, F))
            /\ config(config(cfg, F), F) = config(cfg, F)

\* config was called with a fragment that sets a field and changed nothing.
C13_Witness ==
    /\ last.op = "config"
    /\ ~last.changed
    /\ last.arg[1].my_string # None
    /\ Subsumed(last.arg[1], cfg)
    /\ cfg.my_bool # None

\* The fragments set no field in common.
Disjoint(A, B) == \A f \in Fields : A[f] = None \/ B[f] = None

\* C14: commutativity on disjoint fragments. For the value V and fragments
\* A and B with no field in common, V.config(A).config(B) and
\* V.config(B).config(A) are the same value.
C14_DisjointMergeCommutes ==
    \A A \in Fragments, B \in Fragments :
        Disjoint(A, B) => config(config(cfg, A), B) = config(config(cfg, B), A)

\* Two disjoint fragments, each setting a field, were merged one after the
\* other and both fields are theirs.
C14_Witness ==
    /\ Len(hist) = 2
    /\ Disjoint(hist[1], hist[2])
    /\ hist[1].my_string # None
    /\ hist[2].my_bool # None
    /\ cfg.my_string = hist[1].my_string
    /\ cfg.my_bool = hist[2].my_bool

\* C16: filepath on an existing, readable file whose content decodes ends
\* as string ends on the same receiver with the file's content.
C16_FilepathAsString ==
    [][(/\ last'.op = "filepath"
        /\ FileAt(last'.arg[1]).openable
        /\ ~FileAt(last'.arg[1]).faulty
        /\ ~Undecodable(FileAt(last'.arg[1]).content)) =>
          \E fmt \in Formats :
              LET r == string(cfg, fmt, FileAt(last'.arg[1]).content)
              IN  /\ r.err = NoError
                  /\ last'.err = NoError
                  /\ cfg' = r.cfg]_vars

\* filepath merged the two-field file into a value that had my_bool only.
C16_Witness ==
    /\ last.op = "filepath"
    /\ last.arg[1] = "full.conf"
    /\ last.err = NoError
    /\ last.changed
    /\ cfg.my_bool = Some(TRUE)
    /\ cfg.my_string = Some("Hi World!")

\* C17: optional_config(None) and optional_filepath(None) return Ok and
\* change nothing; optional_config(Some(o)) ends as config(o) and
\* optional_filepath(Some(p)) ends and returns as filepath(p) can.
C17_OptionalVariants ==
    [][/\ last'.op = "optional_config" =>
             /\ last'.err = NoError
             /\ cfg' = IF last'.arg = None THEN cfg ELSE config(cfg, last'.arg[1])
       /\ last'.op = "optional_filepath" =>
             IF last'.arg = None
             THEN last'.err = NoError /\ cfg' = cfg
             ELSE \E fmt \in Formats :
                      \E r \in filepath(cfg, fmt, last'.arg[1]) :
                          cfg' = r.cfg /\ last'.err = r.err]_vars

\* optional_config(None) returned on a value that is not loaded.
C17_Witness ==
    /\ last.op = "optional_config"
    /\ last.arg = None
    /\ last.err = NoError
    /\ ~cfg._loaded

\* C15: the loaded flag is monotonic. On one value, once is_loaded() is
\* true it is true after every later merge call, set_loaded and
\* ensure_loaded; ensure_loaded on a value that is not loaded leaves the
\* default.
C15_LoadedMonotonic ==
    [][/\ (last'.op # "new" /\ is_loaded(cfg)) => is_loaded(cfg')
       /\ (last'.op = "ensure_loaded" /\ ~is_loaded(cfg)) => cfg' = default]_vars

\* ensure_loaded ran on a value that only set_loaded had marked loaded.
C15_Witness ==
    /\ last.op = "ensure_loaded"
    /\ is_loaded(cfg)
    /\ hist = <<>>
    /\ FieldsOf(cfg) = FieldsOf(new)

\* C18: env() returns normally.
C18_EnvReturns == last.op = "env" => last.err = NoError

\* C19: a path that does not exist, whose immediate parent (the current
\* directory for a one-component relative path) exists and is writable, is
\* creatable; a path none of whose ancestors exists is not.
C19_PathCreatability ==
    (ask.impl = "path" /\ ask.method = "is_creatable") =>
        LET loc == Resolve(ask.arg[1]) IN
        /\ (/\ loc # <<>>
            /\ ~OnDisk(disk, loc)
            /\ OnDisk(disk, SubSeq(loc, 1, Len(loc) - 1))
            /\ "w" \in disk.modes[Len(loc)]) => answer = TRUE
        /\ (\A k \in 0..Len(loc) : ~OnDisk(disk, SubSeq(loc, 1, k))) => answer = FALSE

\* What the impl for paths answers.
PathAnswer(method, d, p) ==
    CASE method = "exists" -> exists(d, p)
      [] method = "is_readable" -> is_readable(d, p)
      [] method = "is_writable" -> is_writable(d, p)
      [] method = "is_executable" -> is_executable(d, p)
      [] method = "is_creatable" -> is_creatable(d, p)
      [] OTHER -> largest_valid_subset(d, p)

\* C20: on None the five predicates of the impl for Option return false and
\* largest_valid_subset returns None; on Some(p) each returns what it
\* returns for p.
C20_OptionDelegates ==
    ask.impl = "option" =>
        IF ask.arg = None
        THEN IF ask.method = "largest_valid_subset" THEN answer = None
             ELSE answer = FALSE
        ELSE answer = PathAnswer(ask.method, disk, ask.arg[1])

\* is_executable of Some(p) was false for a p that is readable.
C20_Witness ==
    /\ ask.impl = "option"
    /\ ask.method = "is_executable"
    /\ ask.arg # None
    /\ answer = FALSE
    /\ is_readable(disk, ask.arg[1])

\* C23: a file that opens but whose reads fail makes filepath return
\* ReadConfigFile with the path and the I/O cause, whatever the format
\* adapter; nothing is merged and the value is not changed.
C23_ReadFaultIsReadError ==
    [][(/\ last'.op = "filepath"
        /\ FileAt(last'.arg[1]).openable
        /\ FileAt(last'.arg[1]).faulty) =>
          /\ last'.err.kind = "ReadConfigFile"
          /\ last'.err.path = Some(last'.arg[1])
          /\ last'.err.source = "io::Error"
          /\ hist' = hist
          /\ cfg' = cfg]_vars

\* Some field of the value is set.
SomeFieldSet(c) == \E f \in Fields : c[f] # None

\* C25: after every call on a value made by new(), a value with a field
\* set is loaded; so ensure_loaded leaves a value with a field set as it is.
C25_SetFieldImpliesLoaded ==
    [][/\ SomeFieldSet(cfg') => is_loaded(cfg')
       /\ (last'.op = "ensure_loaded" /\ SomeFieldSet(cfg)) => cfg' = cfg]_vars

\* ensure_loaded ran on a value whose only set field came from config.
C25_Witness ==
    /\ last.op = "ensure_loaded"
    /\ Len(hist) = 1
    /\ cfg.my_bool # None
    /\ cfg.my_string = None
    /\ is_loaded(cfg)

\* The path itself and the paths reached from it by parent(), nearest
\* first: the path with its last k components removed.
Ancestor(p, k) == PathOf(p.absolute, SubSeq(p.comps, 1, Len(p.comps) - k))

\* The fewest steps up from p to a path that exists; none is the empty set.
NearestExisting(d, p) ==
    {k \in 0..Len(p.comps) :
        /\ exists(d, Ancestor(p, k))
        /\ \A j \in 0..(k - 1) : ~exists(d, Ancestor(p, j))}

C24_TryFilepathOkMeansMerged ==
    [][(last'.op = "try_filepath" /\ last'.err = NoError) =>
          /\ Len(hist') = Len(hist) + 1
          /\ is_loaded(cfg')]_vars

\* The merge calls that read a file.
FileOps == {"filepath", "optional_filepath", "try_filepath", "try_optional_filepath"}

AskedFirst ==
    /\ ask.impl \in Kinds
    /\ ask.method \in {"first_valid_path"} \cup DOMAIN FirstMethods

\* The items, from position i + 1 on, that are paths satisfying predicate f.
PathsSatisfying(f, i) ==
    {j \in (i + 1)..Len(iter.items) :
        /\ iter.kind = "options" => iter.items[j] # None
        /\ Holds(iter.kind, f, disk, iter.items[j])}

\* The path that item j of the iterator holds.
PathAt(j) == IF iter.kind = "paths" THEN iter.items[j] ELSE iter.items[j][1]

\* C21: first_valid_path and the first_*_path methods return the first of
\* the remaining paths that satisfies the predicate, and None only when
\* none does; None items of an iterator of optional paths are passed over.
C21_FirstSatisfyingPath ==
    AskedFirst =>
        LET found == PathsSatisfying(ask.arg[1], iter.from) IN
        IF found = {} THEN answer = None
        ELSE answer = Some(PathAt(Min(found)))

\* The step is a query on the iterator.
IterStep == ask'.impl \in Kinds /\ iter'.from = iter.pos

====
